---- MODULE Spec2Model ----
(***************************************************************************)
(* Job execution pipeline of ffmpeg-server: the /execute-ffmpeg handler,   *)
(* the request workspace, the shared download pool, the ffmpegQueue        *)
(* (p-queue), runFFmpeg with its timeout/close/error race, the upload loop *)
(* and categorizeError.                                                    *)
(***************************************************************************)
EXTENDS Integers, Sequences, FiniteSets, TLC

\* ------------------------------------------------------------------ bounds
NReq == 1
NJobs == 3
MaxUrls == 2
MaxCmdLen == 4
NPool == 4

\* ------------------------------------------------------- program constants
TimeoutStatus == 408

\* pLimit(12): capacity of the process-wide download pool
DownloadLimit == 12
\* MAX_FILE_SIZE: the largest file uploadToSupabase accepts, in bytes
MAX_FILE_SIZE == 100 * 1024 * 1024

\* host CPU counts the server may be started on (cpus().length)
CpuCounts == {1, 6}

\* exit codes the close event may carry; NullCode stands for code === null
NullCode == -100
ExitCodes == {0, 1, NullCode}

\* declared output names: <<directory part, base name>>
nX == <<"", "x.mp4">>
nY == <<"", "y.mp4">>
OutputLists == { <<>>, <<nX>>, <<nX, nY>>, <<nX, nX>> }

\* keyword-bearing texts a subprocess may write to stderr
StderrTexts == { {}, {"upload"} }

\* A command text is a sequence of characters, told apart by what trim(),
\* startsWith() and the tokenizer make of them: whitespace, the six letters
\* "ffmpeg", other word characters, a shell control operator, and '#'.
Chars == {"sp", "ffmpeg", "w", "op", "#"}

\* every command text of at most MaxCmdLen characters
AllTexts == UNION { [1..n -> Chars] : n \in 0..MaxCmdLen }

\* some request bodies: no ffmpeg prefix, a plain command, a command with a
\* shell operator, a command that is only a comment
cmdBad == << "w" >>
cmdOk == << "ffmpeg", "sp", "w" >>
cmdOp == << "ffmpeg", "sp", "w", "op" >>
cmdComment == << "ffmpeg", "sp", "#" >>
CommandTexts == { cmdBad, cmdOk, cmdOp, cmdComment }

VARIABLES
  cpuCount,     \* cpus().length of the host
  bucketSet,    \* process.env.SUPABASE_BUCKET is set
  issued,       \* number of request ids handed out by randomUUID
  reqId,        \* res.locals.requestId of each request (0: none yet)
  command,      \* req.body.command of each request
  pc,           \* position of each request's handler
  workspace,    \* result of createRequestWorkspace for the request
  dirs,         \* directories that exist under tmpdir()
  files,        \* files that exist under tmpdir()
  dl,           \* fetches in flight per request (indices of its locators),
                \* each holding a slot of globalDownloadLimit
  dlWaiting,    \* downloads queued in globalDownloadLimit, in submission order
  slots,        \* requests whose task holds an ffmpegQueue slot (pending)
  waiting,      \* ffmpegQueue's waiting jobs, in submission order
  proc,         \* subprocess of each request
  timeoutId,    \* the timeout timer is armed
  isTimedOut,   \* the isTimedOut flag of runFFmpeg
  calls,        \* resolve/reject calls made by the event handlers, in order
  outcome,      \* state of the promise awaited by runFFmpeg
  outputFiles,  \* result of parseOutputFiles for the request
  upIdx,        \* number of pathMap entries uploaded so far
  storage,      \* objects present in the storage bucket
  resp,         \* responses sent for the request, in order
  nTmpCleanup,  \* number of cleanupTempFiles calls made for the request
  nWsCleanup,   \* number of cleanupRequestWorkspace calls made
  thrown,       \* error propagating out of runFFmpeg / downloadInputs
  rmFailed,     \* rm() of the request's workspace failed (and was swallowed)
  sent,         \* sizes of the file buffers handed to storage.upload()
  fnArgs,       \* argument of a pure function called on its own
  fnRet         \* << its result >> once the call has returned

vars == << cpuCount, bucketSet, issued, reqId, command, pc, workspace, dirs,
           files, dl, dlWaiting, slots, waiting, proc, timeoutId, isTimedOut, calls, outcome, outputFiles,
           upIdx, storage, resp, nTmpCleanup, nWsCleanup, thrown, rmFailed,
           sent, fnArgs, fnRet >>

\* ----------------------------------------------------------- pure helpers
Min(a, b) == IF a < b THEN a ELSE b
Max(a, b) == IF a > b THEN a ELSE b

\* Math.min(Math.max(Math.floor(cpuCount / 2), 2), 8)
maxConcurrentOf(n) == Min(Max(n \div 2, 2), 8)
maxConcurrent == maxConcurrentOf(cpuCount)

\* join(tmpdir(), requestId) and its two subdirectories
WorkspaceRootShared(id) == <<"tmp">>
WorkspaceRoot(id) == <<"tmp", id>>
InputsDir(id) == WorkspaceRoot(id) \o <<"inputs">>
OutputsDir(id) == WorkspaceRoot(id) \o <<"outputs">>

IsPrefix(p, q) == Len(p) <= Len(q) /\ SubSeq(q, 1, Len(p)) = p

\* ------------------------------------------------------------ command text
\* String.prototype.trim(): whitespace is removed at both ends
RECURSIVE trimStart(_)
trimStart(s) == IF s # <<>> /\ Head(s) = "sp" THEN trimStart(Tail(s)) ELSE s

RECURSIVE trimEnd(_)
trimEnd(s) ==
  IF s # <<>> /\ s[Len(s)] = "sp" THEN trimEnd(SubSeq(s, 1, Len(s) - 1)) ELSE s

trim(s) == trimEnd(trimStart(s))

startsWith(s, p) == IsPrefix(p, s)

\* the text "ffmpeg " (seven characters of the source text)
FfmpegPrefix == << "ffmpeg", "sp" >>

\* executeFfmpegSchema: a string of at least one character whose trimmed
\* text starts with "ffmpeg "
schemaAcceptsBare(cmd) == cmd # <<>> /\ startsWith(trim(cmd), << "ffmpeg" >>)
schemaAccepts(cmd) == cmd # <<>> /\ startsWith(trim(cmd), FfmpegPrefix)

\* command.trim().substring(7)
argsOf(cmd) == SubSeq(trim(cmd), Len(FfmpegPrefix) + 1, Len(trim(cmd)))

\* shell-quote's parse(): whitespace separates barewords, a control operator
\* is an entry {op} of its own, an unquoted '#' ends the bareword in progress
\* and turns the rest of the text into one {comment} entry
StrEntry(text) == [kind |-> "str", text |-> text]
OpEntry == [kind |-> "op", text |-> << "op" >>]
CommentEntry(text) == [kind |-> "comment", text |-> text]

RECURSIVE Tokenize(_, _, _)
Tokenize(s, cur, out) ==
  LET flushed == IF cur = <<>> THEN out ELSE Append(out, StrEntry(cur)) IN
  IF s = <<>> THEN flushed
  ELSE CASE Head(s) = "sp" -> Tokenize(Tail(s), <<>>, flushed)
         [] Head(s) = "op" -> Tokenize(Tail(s), <<>>, Append(flushed, OpEntry))
         [] Head(s) = "#" -> Append(flushed, CommentEntry(Tail(s)))
         [] OTHER -> Tokenize(Tail(s), Append(cur, Head(s)), out)

shellParse(s) == Tokenize(s, <<>>, <<>>)

IsStr(e) == e.kind = "str"
HasOp(parsed) == \E i \in 1..Len(parsed) : parsed[i].kind = "op"

\* rm(rootDir, {recursive: true, force: true})
RmTreeShallow(set, root) == set \ {root}
RmTree(set, root) == { p \in set : ~IsPrefix(root, p) }

SeqToSet(s) == { s[i] : i \in 1..Len(s) }

\* keys of a Map filled by pathMap.set(outputFile, ...) in iteration order
RECURSIVE MapKeys(_)
MapKeys(s) ==
  IF s = <<>> THEN <<>>
  ELSE LET init == MapKeys(SubSeq(s, 1, Len(s) - 1))
           last == s[Len(s)]
       IN IF last \in SeqToSet(init) THEN init ELSE Append(init, last)

\* basename(outputFile): the last segment of a name given by its segments
basename(name) == name[Len(name)]
\* join(tempDir, filename): the path is normalised, so ".." leads to the
\* parent directory and "." or "" to the directory itself
join(dir, filename) ==
  CASE filename = ".." -> SubSeq(dir, 1, Len(dir) - 1)
    [] filename \in {".", ""} -> dir
    [] OTHER -> Append(dir, filename)
TempPath(id, name) == join(OutputsDir(id), basename(name))

\* resolveOutputPaths(outputFiles, tempDir): the entries << key, value >> of
\* pathMap in iteration order
resolveOutputPaths(outs, tempDir) ==
  [k \in 1..Len(MapKeys(outs)) |->
     << MapKeys(outs)[k], join(tempDir, basename(MapKeys(outs)[k])) >>]

\* replaceOutputPaths(args, pathMap): args.map(arg => pathMap.get(arg) || arg)
MapHas(pathMap, key) == \E k \in 1..Len(pathMap) : pathMap[k][1] = key
MapGet(pathMap, key) ==
  pathMap[CHOOSE k \in 1..Len(pathMap) : pathMap[k][1] = key][2]
replaceOutputPaths(args, pathMap) ==
  [i \in 1..Len(args) |->
     IF MapHas(pathMap, args[i]) THEN MapGet(pathMap, args[i]) ELSE args[i]]
TempPaths(id, outs) == { TempPath(id, outs[i]) : i \in 1..Len(outs) }

\* ------------------------------------------------------ errors, responses
\* An Error is modelled by the keywords its message contains and by the exit
\* code embedded in it (NoCode when the message carries none).
NoCode == -99
NoErr == [marks |-> {"<none>"}, code |-> NoCode, url |-> 0, bytes |-> 0]
Err(m, c) == [marks |-> m, code |-> c, url |-> 0, bytes |-> 0]

TimeoutError == Err({"timed out"}, NoCode)
\* `Failed to spawn FFmpeg: ${err.message}`
SpawnErrorRaw == Err({"ENOENT"}, NoCode)
SpawnError == Err({"Failed to spawn"}, NoCode)
ExitError(exitCode, stderr) == Err({"exited with code"} \cup stderr, exitCode)
EmptyArgsError == Err({"Arguments are empty"}, NoCode)
OperatorError == Err({"Shell operators"}, NoCode)
\* `Failed to download ${url}: ...`: the message names the locator
DownloadErrorAnonymous(k) == Err({"Failed to download"}, NoCode)
DownloadError(k) == [Err({"Failed to download"}, NoCode) EXCEPT !.url = k]
BucketError == Err({"SUPABASE_BUCKET"}, NoCode)
StatError == Err({"ENOENT"}, NoCode)
\* `File ${filePath} exceeds maximum size of 100MB (${fileStats.size} bytes)`
SizeError(size) == [Err({"exceeds maximum size"}, NoCode) EXCEPT !.bytes = size]
BackendError == Err({"upload", "Supabase"}, NoCode)

ErrorTypes == {"validation", "parse", "spawn", "timeout", "execution", "storage"}

Has(err, kw) == kw \in err.marks

\* parseArgs(argsString): the string entries of the tokenizer, or an Error
parseArgs(argsString) ==
  LET trimmed == trim(argsString)
      parsed == shellParse(trimmed)
      strs == SelectSeq(parsed, IsStr)
      args == [i \in 1..Len(strs) |-> strs[i].text]
  IN IF trimmed = <<>> THEN [err |-> EmptyArgsError, args |-> <<>>]
     ELSE IF HasOp(parsed) THEN [err |-> OperatorError, args |-> <<>>]
     ELSE IF args = <<>> THEN [err |-> EmptyArgsError, args |-> <<>>]
     ELSE [err |-> NoErr, args |-> args]

\* exitCodeMatch = message.match(/exited with code (\d+)/)
ExitCodeMatch(err) == IF err.code >= 0 THEN << err.code >> ELSE <<>>

categorizeError(err) ==
  IF Has(err, "Supabase") \/ Has(err, "upload") \/ Has(err, "SUPABASE_BUCKET")
     \/ Has(err, "exceeds maximum size")
    THEN [type |-> "storage", statusCode |-> 500, exitCode |-> <<>>]
  ELSE IF Has(err, "timed out")
    THEN [type |-> "timeout", statusCode |-> TimeoutStatus, exitCode |-> <<>>]
  ELSE IF Has(err, "Failed to spawn")
    THEN [type |-> "spawn", statusCode |-> 500, exitCode |-> <<>>]
  ELSE IF Has(err, "Arguments are empty") \/ Has(err, "Shell operators")
    THEN [type |-> "parse", statusCode |-> 400, exitCode |-> <<>>]
  ELSE IF Has(err, "exited with code")
    THEN [type |-> "execution", statusCode |-> 400, exitCode |-> ExitCodeMatch(err)]
  ELSE [type |-> "execution", statusCode |-> 500, exitCode |-> <<>>]

\* res.status(errorInfo.statusCode).json({success: false, ...})
ErrorResponse(err) ==
  LET info == categorizeError(err)
  IN [success |-> FALSE, errorType |-> info.type, status |-> info.statusCode,
      exitCode |-> info.exitCode, hasOutputs |-> FALSE, outputs |-> <<>>]

\* res.status(400).json({success: false, errorType: "validation", ...})
ValidationResponse ==
  [success |-> FALSE, errorType |-> "validation", status |-> 400,
   exitCode |-> <<>>, hasOutputs |-> FALSE, outputs |-> <<>>]

\* res.json(result): {success: true, stdout, stderr, exitCode, outputs}
SuccessResponse(uploaded) ==
  [success |-> TRUE, errorType |-> "", status |-> 200,
   exitCode |-> <<0>>, hasOutputs |-> TRUE, outputs |-> uploaded]

\* The handler's promise rejected before its try block: no response is sent
\* by the handler; Express answers with its default 500 page.
UnhandledResponse ==
  [success |-> FALSE, errorType |-> "", status |-> 500,
   exitCode |-> <<>>, hasOutputs |-> FALSE, outputs |-> <<>>]

\* ------------------------------------------------------------------- Init
InitWith(R, E) ==
  /\ cpuCount \in E.cpus
  /\ bucketSet \in E.bucket
  /\ issued = 0
  /\ reqId = [r \in R |-> 0]
  /\ command = [r \in R |-> <<>>]
  /\ pc = [r \in R |-> "new"]
  /\ workspace = [r \in R |-> "none"]
  /\ dirs = {}
  /\ files = {}
  /\ dl = [r \in R |-> {}]
  /\ dlWaiting = <<>>
  /\ slots = {}
  /\ waiting = <<>>
  /\ proc = [r \in R |-> "none"]
  /\ timeoutId = [r \in R |-> FALSE]
  /\ isTimedOut = [r \in R |-> FALSE]
  /\ calls = [r \in R |-> <<>>]
  /\ outcome = [r \in R |-> "pending"]
  /\ outputFiles = [r \in R |-> <<>>]
  /\ upIdx = [r \in R |-> 0]
  /\ storage = {}
  /\ resp = [r \in R |-> <<>>]
  /\ nTmpCleanup = [r \in R |-> 0]
  /\ nWsCleanup = [r \in R |-> 0]
  /\ thrown = [r \in R |-> NoErr]
  /\ rmFailed = [r \in R |-> FALSE]
  /\ sent = [r \in R |-> {}]

\* ------------------------------------------------------------ ffmpegQueue
\* ffmpegQueue.add(fn): the job starts at once while pending < concurrency,
\* otherwise it waits behind the jobs submitted before it.
HasFreeSlot == Cardinality(slots) < maxConcurrent
AddSlots(r) == IF HasFreeSlot THEN slots \cup {r} ELSE slots
AddWaitingFront(r) == IF HasFreeSlot THEN waiting ELSE << r >> \o waiting
AddWaiting(r) == IF HasFreeSlot THEN waiting ELSE Append(waiting, r)
AddPc(r) == IF HasFreeSlot THEN "admitted" ELSE "waiting"

\* the task of r settled: its slot is released and the head of the waiting
\* jobs, if any, is started in it
ReleaseSlots(r) ==
  IF waiting = <<>> THEN slots \ {r} ELSE (slots \ {r}) \cup {Head(waiting)}
ReleaseWaiting == IF waiting = <<>> THEN waiting ELSE Tail(waiting)
ReleasePc(r, next) ==
  IF waiting = <<>> THEN [pc EXCEPT ![r] = next]
  ELSE [pc EXCEPT ![r] = next, ![Head(waiting)] = "admitted"]

\* ------------------------------------------------- globalDownloadLimit
\* p-limit: a function handed to the limit starts while activeCount is below
\* the concurrency, otherwise it is queued; when a function settles, the one
\* queued first is started in its place.
ActiveDownloads == UNION { { <<r, k>> : k \in dl[r] } : r \in DOMAIN dl }
activeCount == Cardinality(ActiveDownloads)

FreeDownloadSlotsPerCall == DownloadLimit
FreeDownloadSlots == Max(DownloadLimit - activeCount, 0)

\* of the n downloads of one downloadInputs call, those started at once
StartedAtOnce(n) == Min(n, FreeDownloadSlots)

\* ... and those queued, in the order of urls.map
Queued(r, n) == [i \in 1..(n - StartedAtOnce(n)) |-> <<r, StartedAtOnce(n) + i>>]

\* downloads of r that are queued
QueuedOf(r) == { dlWaiting[i][2] : i \in { j \in 1..Len(dlWaiting) : dlWaiting[j][1] = r } }

\* download k of r settled: its slot is released and handed to the head of
\* the queue
AfterRelease(r, k) ==
  LET released == [dl EXCEPT ![r] = @ \ {k}]
  IN IF dlWaiting = <<>> THEN released
     ELSE [released EXCEPT ![Head(dlWaiting)[1]] = @ \cup {Head(dlWaiting)[2]}]

\* Promise.all(downloadPromises) resolves when the last download resolves
AnySettled(r, k) == TRUE
AllSettled(r, k) == dl[r] \cup QueuedOf(r) = {k}

\* ------------------------------------------------------ promise semantics
\* resolve/reject of an already settled promise has no effect
SettleLastWins(cur, new) == new
Settle(cur, new) == IF cur = "pending" THEN new ELSE cur

\* "Don't resolve if we already timed out": if (isTimedOut) return
NeverTimedOut(flag) == FALSE
AlreadyTimedOut(flag) == flag

\* ffmpegProcess.kill("SIGKILL")
Kill(p) == IF p = "running" THEN "killed" ELSE p

Alive(r) == proc[r] \in {"running", "killed"}

\* ---------------------------------------------------------------- actions
\* requestIdMiddleware, then executeFfmpeg up to its first await: the body is
\* validated against executeFfmpegSchema.  Requests are interchangeable until
\* they arrive, so they are numbered in order of arrival.
Arrive(r, E) ==
  /\ pc[r] = "new"
  /\ r = issued + 1
  /\ issued' = issued + 1
  /\ reqId' = [reqId EXCEPT ![r] = issued + 1]
  /\ \E cmd \in E.cmds :
       /\ command' = [command EXCEPT ![r] = cmd]
       /\ IF schemaAccepts(cmd)
            THEN /\ pc' = [pc EXCEPT ![r] = "mkdir"]
                 /\ resp' = resp
            ELSE /\ pc' = [pc EXCEPT ![r] = "done"]
                 /\ resp' = [resp EXCEPT ![r] = Append(@, ValidationResponse)]
  /\ UNCHANGED << sent, fnArgs, fnRet, cpuCount, bucketSet, workspace, dirs, files, dl, dlWaiting,
                  slots, waiting, proc, timeoutId, isTimedOut, calls, outcome,
                  outputFiles, upIdx, storage, nTmpCleanup, nWsCleanup, thrown,
                  rmFailed >>

\* await createRequestWorkspace(requestId), outside the try block; on success
\* extractUrls and either downloadInputs (every locator is handed to
\* globalDownloadLimit, in order) or ffmpegQueue.add
CreateWorkspace(r, E) ==
  /\ pc[r] = "mkdir"
  /\ \E res \in E.mkdir, n \in E.urls :
       LET id == reqId[r] IN
       CASE res = "failInputs" ->
              /\ n = CHOOSE m \in E.urls : TRUE
              /\ dirs' = dirs
              /\ workspace' = [workspace EXCEPT ![r] = "failed"]
              /\ pc' = [pc EXCEPT ![r] = "done"]
              /\ resp' = [resp EXCEPT ![r] = Append(@, UnhandledResponse)]
              /\ UNCHANGED << dl, dlWaiting, slots, waiting >>
         [] res = "failOutputs" ->
              /\ n = CHOOSE m \in E.urls : TRUE
              /\ dirs' = dirs \cup {WorkspaceRoot(id), InputsDir(id)}
              /\ workspace' = [workspace EXCEPT ![r] = "failed"]
              /\ pc' = [pc EXCEPT ![r] = "done"]
              /\ resp' = [resp EXCEPT ![r] = Append(@, UnhandledResponse)]
              /\ UNCHANGED << dl, dlWaiting, slots, waiting >>
         [] res = "ok" ->
              /\ dirs' = dirs \cup {WorkspaceRoot(id), InputsDir(id), OutputsDir(id)}
              /\ workspace' = [workspace EXCEPT ![r] = "created"]
              /\ resp' = resp
              /\ IF n > 0
                   THEN /\ dl' = [dl EXCEPT ![r] = 1..StartedAtOnce(n)]
                        /\ dlWaiting' = dlWaiting \o Queued(r, n)
                        /\ pc' = [pc EXCEPT ![r] = "downloading"]
                        /\ UNCHANGED << slots, waiting >>
                   ELSE /\ pc' = [pc EXCEPT ![r] = AddPc(r)]
                        /\ slots' = AddSlots(r)
                        /\ waiting' = AddWaiting(r)
                        /\ UNCHANGED << dl, dlWaiting >>
  /\ UNCHANGED << sent, fnArgs, fnRet, cpuCount, bucketSet, issued, reqId, command, files, proc,
                  timeoutId, isTimedOut, calls, outcome, outputFiles, upIdx,
                  storage, nTmpCleanup, nWsCleanup, thrown, rmFailed >>

\* downloadFile(url, targetDir) finishes: fetch failed / not ok, or the body
\* is written with writeFile (which fails once the directory is gone).  Its
\* pool slot goes to the download queued first.  Promise.all rejects on the
\* first failure, the other fetches keep running.
DownloadDone(r, k, fetched) ==
  /\ k \in dl[r]
  /\ LET id == reqId[r]
         ok == fetched /\ InputsDir(id) \in dirs
     IN
     /\ dl' = AfterRelease(r, k)
     /\ dlWaiting' = IF dlWaiting = <<>> THEN dlWaiting ELSE Tail(dlWaiting)
     /\ files' = IF ok THEN files \cup {InputsDir(id) \o << <<"url", k>> >>} ELSE files
     /\ IF pc[r] # "downloading"
          THEN UNCHANGED << pc, slots, waiting, resp, nWsCleanup, thrown >>
          ELSE IF ~ok
            THEN /\ thrown' = [thrown EXCEPT ![r] = DownloadError(k)]
                 /\ resp' = [resp EXCEPT ![r] = Append(@, ErrorResponse(DownloadError(k)))]
                 /\ pc' = [pc EXCEPT ![r] = "cleanup"]
                 /\ nWsCleanup' = [nWsCleanup EXCEPT ![r] = @ + 1]
                 /\ UNCHANGED << slots, waiting >>
            ELSE IF AllSettled(r, k)
              THEN /\ pc' = [pc EXCEPT ![r] = AddPc(r)]
                   /\ slots' = AddSlots(r)
                   /\ waiting' = AddWaiting(r)
                   /\ UNCHANGED << resp, nWsCleanup, thrown >>
              ELSE UNCHANGED << pc, slots, waiting, resp, nWsCleanup, thrown >>
  /\ UNCHANGED << sent, fnArgs, fnRet, cpuCount, bucketSet, issued, reqId, command, workspace, dirs,
                  proc, timeoutId, isTimedOut, calls, outcome, outputFiles,
                  upIdx, storage, nTmpCleanup, rmFailed >>

\* the pathMap entries of a request, in Map iteration order
PathKeys(r) == MapKeys(outputFiles[r])

\* uploadedOutputs after n successful uploads
Uploaded(r, n) == SubSeq(PathKeys(r), 1, n)

\* object written by supabase.storage.from(bucket).upload(storagePath, ...)
StorageObject(id, name) == << id, basename(name) >>

\* the catch block around uploadToSupabase: nothing already uploaded is deleted
StorageRolledBack(st, id) == { o \in st : o[1] # id }
StorageAfterFailure(st, id) == st

\* the task of ffmpegQueue starts: parseArgs, parseOutputFiles, then spawn.
\* A parse error is thrown before the try block of runFFmpeg; a spawn failure
\* is delivered as the error event on the next tick.
FailCodes == {-2}

RunStart(r, E) ==
  /\ pc[r] = "admitted"
  /\ \E outs \in E.outs, spawned \in E.spawn :
       IF parseArgs(argsOf(command[r])).err # NoErr
         THEN LET err == parseArgs(argsOf(command[r])).err IN
              /\ outs = CHOOSE o \in E.outs : TRUE
              /\ spawned = CHOOSE b \in E.spawn : TRUE
              /\ thrown' = [thrown EXCEPT ![r] = err]
              /\ resp' = [resp EXCEPT ![r] = Append(@, ErrorResponse(err))]
              /\ slots' = ReleaseSlots(r)
              /\ waiting' = ReleaseWaiting
              /\ pc' = ReleasePc(r, "cleanup")
              /\ nWsCleanup' = [nWsCleanup EXCEPT ![r] = @ + 1]
              /\ UNCHANGED << outputFiles, proc, timeoutId, calls, outcome >>
         ELSE /\ outputFiles' = [outputFiles EXCEPT ![r] = outs]
              /\ UNCHANGED << resp, slots, waiting, nWsCleanup >>
              /\ IF spawned
                   THEN /\ proc' = [proc EXCEPT ![r] = "running"]
                        /\ timeoutId' = [timeoutId EXCEPT ![r] = TRUE]
                        /\ pc' = [pc EXCEPT ![r] = "running"]
                        /\ UNCHANGED << calls, outcome, thrown >>
                   ELSE /\ proc' = [proc EXCEPT ![r] = "failed"]
                        /\ timeoutId' = timeoutId
                        /\ calls' = [calls EXCEPT ![r] = Append(@, "spawn")]
                        /\ outcome' = [outcome EXCEPT ![r] = Settle(@, "spawn")]
                        /\ thrown' = [thrown EXCEPT ![r] = SpawnError]
                        /\ pc' = [pc EXCEPT ![r] = "settling"]
  /\ UNCHANGED << sent, fnArgs, fnRet, cpuCount, bucketSet, issued, reqId, command, workspace, dirs, files, dl, dlWaiting,
                  isTimedOut, upIdx, storage, nTmpCleanup, rmFailed >>

\* the subprocess terminates (by itself or after SIGKILL); what it wrote to
\* its output paths is on disk if the directory still exists
ProcExit(r) ==
  /\ Alive(r)
  /\ proc' = [proc EXCEPT ![r] = "exited"]
  /\ files' = IF OutputsDir(reqId[r]) \in dirs
                THEN files \cup TempPaths(reqId[r], outputFiles[r])
                ELSE files
  /\ UNCHANGED << sent, fnArgs, fnRet, cpuCount, bucketSet, issued, reqId, command, workspace, pc, dirs, dl, dlWaiting, slots,
                  waiting, timeoutId, isTimedOut, calls, outcome, outputFiles,
                  upIdx, storage, resp, nTmpCleanup, nWsCleanup, thrown,
                  rmFailed >>

\* ffmpegProcess.on("close", code => ...)
CloseEvent(r, E) ==
  /\ proc[r] \in {"exited", "failed"}
  /\ proc' = [proc EXCEPT ![r] = "closed"]
  /\ timeoutId' = [timeoutId EXCEPT ![r] = FALSE]
  /\ IF AlreadyTimedOut(isTimedOut[r])
       THEN UNCHANGED << calls, outcome, thrown, pc >>
       ELSE \E code \in (IF proc[r] = "failed" THEN FailCodes ELSE E.codes),
               stderr \in E.stderr :
              LET exitCode == IF code = NullCode THEN -1 ELSE code
                  first == outcome[r] = "pending"
              IN
              IF exitCode = 0
                THEN /\ stderr = CHOOSE t \in E.stderr : TRUE
                     /\ calls' = [calls EXCEPT ![r] = Append(@, "success")]
                     /\ outcome' = [outcome EXCEPT ![r] = Settle(@, "success")]
                     /\ thrown' = thrown
                     /\ pc' = IF first THEN [pc EXCEPT ![r] = "uploading"] ELSE pc
                ELSE /\ calls' = [calls EXCEPT ![r] = Append(@, "exit")]
                     /\ outcome' = [outcome EXCEPT ![r] = Settle(@, "exit")]
                     /\ thrown' = IF first
                                    THEN [thrown EXCEPT ![r] = ExitError(exitCode, stderr)]
                                    ELSE thrown
                     /\ pc' = IF first THEN [pc EXCEPT ![r] = "settling"] ELSE pc
  /\ UNCHANGED << sent, fnArgs, fnRet, cpuCount, bucketSet, issued, reqId, command, workspace, dirs, files, dl, dlWaiting, slots,
                  waiting, isTimedOut, outputFiles, upIdx, storage, resp,
                  nTmpCleanup, nWsCleanup, rmFailed >>

\* the setTimeout callback of runFFmpeg
TimeoutFires(r) ==
  /\ timeoutId[r]
  /\ isTimedOut' = [isTimedOut EXCEPT ![r] = TRUE]
  /\ timeoutId' = [timeoutId EXCEPT ![r] = FALSE]
  /\ proc' = [proc EXCEPT ![r] = Kill(@)]
  /\ calls' = [calls EXCEPT ![r] = Append(@, "timeout")]
  /\ outcome' = [outcome EXCEPT ![r] = Settle(@, "timeout")]
  /\ IF outcome[r] = "pending"
       THEN /\ thrown' = [thrown EXCEPT ![r] = TimeoutError]
            /\ pc' = [pc EXCEPT ![r] = "settling"]
       ELSE UNCHANGED << thrown, pc >>
  /\ UNCHANGED << sent, fnArgs, fnRet, cpuCount, bucketSet, issued, reqId, command, workspace, dirs, files, dl, dlWaiting, slots,
                  waiting, outputFiles, upIdx, storage, resp, nTmpCleanup,
                  nWsCleanup, rmFailed >>
\* cleanupTempFiles(tempFilePaths): unlink every path, ignoring errors
Unlinked(r) == files \ TempPaths(reqId[r], outputFiles[r])

\* outcome of one uploadToSupabase call
UploadResults == {"ok", "nobucket", "stat", "size", "backend"}
UploadError(res, size) ==
  CASE res = "nobucket" -> BucketError
    [] res = "stat" -> StatError
    [] res = "size" -> SizeError(size)
    [] OTHER -> BackendError

\* fileStats.size > MAX_FILE_SIZE
TooLargeInclusive(size) == size >= MAX_FILE_SIZE
TooLarge(size) == size > MAX_FILE_SIZE

\* the calls of uploadToSupabase in their order: the bucket check, stat(),
\* the size check, readFile() and storage.upload(); `size` is what stat()
\* reports (NoSize when stat() is not reached or fails)
NoSize == -1
UploadOutcome(res, size, bucket) ==
  /\ (res = "nobucket") <=> ~bucket
  /\ (res \in {"nobucket", "stat"}) <=> (size = NoSize)
  /\ size # NoSize => ((res = "size") <=> TooLarge(size))
\* the buffer read from the file reaches storage.upload()
Handed(res) == res \in {"ok", "backend"}

\* `throw uploadErr` in the catch block of the loop body: the loop is left
\* and the error goes to the outer catch of runFFmpeg
AfterUploadFailureRetry == "uploading"
AfterUploadFailure == "settling"

\* one iteration of the upload loop over pathMap.entries(); on failure the
\* inner catch runs cleanupTempFiles and rethrows
Upload(r, E) ==
  /\ pc[r] = "uploading"
  /\ upIdx[r] < Len(PathKeys(r))
  /\ \E res \in E.upload, size \in E.sizes \cup {NoSize} :
       /\ UploadOutcome(res, size, bucketSet)
       /\ sent' = [sent EXCEPT ![r] = IF Handed(res) THEN @ \cup {size} ELSE @]
       /\ IF res = "ok"
            THEN /\ storage' = storage \cup
                       {StorageObject(reqId[r], PathKeys(r)[upIdx[r] + 1])}
                 /\ upIdx' = [upIdx EXCEPT ![r] = @ + 1]
                 /\ UNCHANGED << thrown, pc, nTmpCleanup, files >>
            ELSE /\ storage' = StorageAfterFailure(storage, reqId[r])
                 /\ upIdx' = upIdx
                 /\ thrown' = [thrown EXCEPT ![r] = UploadError(res, size)]
                 /\ nTmpCleanup' = [nTmpCleanup EXCEPT ![r] = @ + 1]
                 /\ files' = Unlinked(r)
                 /\ pc' = [pc EXCEPT ![r] = AfterUploadFailure]
  /\ UNCHANGED << fnArgs, fnRet, cpuCount, bucketSet, issued, reqId, command, workspace, dirs, dl, dlWaiting, slots, waiting,
                  proc, timeoutId, isTimedOut, calls, outcome, outputFiles,
                  resp, nWsCleanup, rmFailed >>

\* for (const [..] of pathMap.entries()) { await uploadToSupabase(..) } is over
UploadsFinishedEarly(r) == TRUE
UploadsFinished(r) == upIdx[r] = Len(PathKeys(r))

\* every entry uploaded: cleanupTempFiles, runFFmpeg returns, the slot is
\* released, the handler sends res.json(result) and enters its finally block
RunReturn(r) ==
  /\ pc[r] = "uploading"
  /\ UploadsFinished(r)
  /\ nTmpCleanup' = [nTmpCleanup EXCEPT ![r] = @ + 1]
  /\ files' = Unlinked(r)
  /\ slots' = ReleaseSlots(r)
  /\ waiting' = ReleaseWaiting
  /\ pc' = ReleasePc(r, "cleanup")
  /\ resp' = [resp EXCEPT ![r] = Append(@, SuccessResponse(Uploaded(r, upIdx[r])))]
  /\ nWsCleanup' = [nWsCleanup EXCEPT ![r] = @ + 1]
  /\ UNCHANGED << sent, fnArgs, fnRet, cpuCount, bucketSet, issued, reqId, command, workspace, dirs, dl, dlWaiting, proc, timeoutId,
                  isTimedOut, calls, outcome, outputFiles, upIdx, storage,
                  thrown, rmFailed >>

\* the outer catch of runFFmpeg: cleanupTempFiles, rethrow; the slot is
\* released, the handler's catch sends the categorized error and the finally
\* block starts
RunThrow(r) ==
  /\ pc[r] = "settling"
  /\ nTmpCleanup' = [nTmpCleanup EXCEPT ![r] = @ + 1]
  /\ files' = Unlinked(r)
  /\ slots' = ReleaseSlots(r)
  /\ waiting' = ReleaseWaiting
  /\ pc' = ReleasePc(r, "cleanup")
  /\ resp' = [resp EXCEPT ![r] = Append(@, ErrorResponse(thrown[r]))]
  /\ nWsCleanup' = [nWsCleanup EXCEPT ![r] = @ + 1]
  /\ UNCHANGED << sent, fnArgs, fnRet, cpuCount, bucketSet, issued, reqId, command, workspace, dirs, dl, dlWaiting, proc, timeoutId,
                  isTimedOut, calls, outcome, outputFiles, upIdx, storage,
                  thrown, rmFailed >>

\* the catch block of cleanupRequestWorkspace: the failure of rm() is logged
\* and not rethrown, so the handler's finally block completes normally and
\* the responses sent so far stay as they are
AfterRmFailurePropagated(rs) == Append(rs, UnhandledResponse)
AfterRmFailure(rs) == rs

\* cleanupRequestWorkspace(requestId): rm -rf of the root; a failure is logged
\* and swallowed
CleanupDone(r, E) ==
  /\ pc[r] = "cleanup"
  /\ pc' = [pc EXCEPT ![r] = "done"]
  /\ \E removed \in E.rm :
       IF removed
         THEN /\ dirs' = RmTree(dirs, WorkspaceRoot(reqId[r]))
              /\ files' = RmTree(files, WorkspaceRoot(reqId[r]))
              /\ UNCHANGED << rmFailed, resp >>
         ELSE /\ rmFailed' = [rmFailed EXCEPT ![r] = TRUE]
              /\ resp' = [resp EXCEPT ![r] = AfterRmFailure(@)]
              /\ UNCHANGED << dirs, files >>
  /\ UNCHANGED << sent, fnArgs, fnRet, cpuCount, bucketSet, issued, reqId, command, workspace, dl, dlWaiting, slots, waiting, proc,
                  timeoutId, isTimedOut, calls, outcome, outputFiles, upIdx,
                  storage, nTmpCleanup, nWsCleanup, thrown >>

\* what the environment may do in the full pipeline
FullEnv ==
  [ cpus |-> {1}, bucket |-> BOOLEAN, cmds |-> CommandTexts,
    mkdir |-> {"ok", "failInputs", "failOutputs"}, urls |-> 0..MaxUrls,
    outs |-> OutputLists,
    spawn |-> BOOLEAN, codes |-> ExitCodes, stderr |-> StderrTexts,
    upload |-> UploadResults, rm |-> BOOLEAN,
    sizes |-> {MAX_FILE_SIZE, MAX_FILE_SIZE + 1} ]

\* jobs without inputs or outputs competing for the slots, on hosts of
\* several sizes
QueueEnv ==
  [ cpus |-> CpuCounts, bucket |-> {TRUE}, cmds |-> {cmdOk, cmdComment},
    mkdir |-> {"ok"}, urls |-> {0}, outs |-> { <<>> },
    spawn |-> {TRUE}, codes |-> {0, 1}, stderr |-> { {} },
    upload |-> {"ok"}, rm |-> {TRUE}, sizes |-> {MAX_FILE_SIZE} ]

Reqs == DOMAIN pc

\* no pure function is called on its own while the server handles requests
NoCall == fnArgs = <<>> /\ fnRet = <<>>

Init == InitWith(1..NReq, FullEnv) /\ NoCall

Next ==
  \E r \in Reqs :
    \/ Arrive(r, FullEnv)
    \/ CreateWorkspace(r, FullEnv)
    \/ \E k \in 1..MaxUrls, fetched \in BOOLEAN : DownloadDone(r, k, fetched)
    \/ RunStart(r, FullEnv)
    \/ ProcExit(r)
    \/ CloseEvent(r, FullEnv)
    \/ TimeoutFires(r)
    \/ Upload(r, FullEnv)
    \/ RunReturn(r)
    \/ RunThrow(r)
    \/ CleanupDone(r, FullEnv)

Spec == Init /\ [][Next]_vars

\* the execution queue under load: NJobs jobs compete for the slots
InitQueue == InitWith(1..NJobs, QueueEnv) /\ NoCall

NextQueue ==
  \E r \in Reqs :
    \/ Arrive(r, QueueEnv)
    \/ CreateWorkspace(r, QueueEnv)
    \/ RunStart(r, QueueEnv)
    \/ ProcExit(r)
    \/ CloseEvent(r, QueueEnv)
    \/ TimeoutFires(r)
    \/ RunReturn(r)
    \/ RunThrow(r)
    \/ CleanupDone(r, QueueEnv)

SpecQueue == InitQueue /\ [][NextQueue]_vars

\* the execution queue with fair scheduling: jobs that write one output
\* file, a subprocess that may fail to spawn, exit with 0 or 1 or run into
\* the timeout
FairEnv ==
  [ cpus |-> {1}, bucket |-> {TRUE}, cmds |-> {cmdOk},
    mkdir |-> {"ok"}, urls |-> {0}, outs |-> { <<nX>> },
    spawn |-> BOOLEAN, codes |-> {0, 1}, stderr |-> { {} },
    upload |-> {"ok"}, rm |-> {TRUE}, sizes |-> {MAX_FILE_SIZE} ]

InitFair == InitWith(1..NJobs, FairEnv) /\ NoCall

NextFair ==
  \E r \in Reqs :
    \/ Arrive(r, FairEnv)
    \/ CreateWorkspace(r, FairEnv)
    \/ RunStart(r, FairEnv)
    \/ ProcExit(r)
    \/ CloseEvent(r, FairEnv)
    \/ TimeoutFires(r)
    \/ Upload(r, FairEnv)
    \/ RunReturn(r)
    \/ RunThrow(r)
    \/ CleanupDone(r, FairEnv)

\* the event loop runs every continuation that is ready (the awaits of the
\* handler and of runFFmpeg, the task the queue starts), the timer set by
\* setTimeout fires unless it is cleared, the subprocess ends and its close
\* event is delivered.  The response of the storage backend to
\* storage.upload is no event of the event loop's making: uploadToSupabase
\* sets no deadline for it.
Fairness ==
  \A r \in 1..NJobs :
    /\ WF_vars(CreateWorkspace(r, FairEnv))
    /\ WF_vars(RunStart(r, FairEnv))
    /\ WF_vars(ProcExit(r))
    /\ WF_vars(CloseEvent(r, FairEnv))
    /\ WF_vars(TimeoutFires(r))
    /\ WF_vars(RunReturn(r))
    /\ WF_vars(RunThrow(r))
    /\ WF_vars(CleanupDone(r, FairEnv))

SpecFair == InitFair /\ [][NextFair]_vars /\ Fairness

\* the download pool under load: NPool requests that together carry more
\* locators than the pool has slots, then run a subprocess each
UrlsPerReq == DownloadLimit \div NPool + 1

PoolEnv ==
  [ cpus |-> {1}, bucket |-> {TRUE}, cmds |-> {cmdOk},
    mkdir |-> {"ok"}, urls |-> {UrlsPerReq}, outs |-> { <<>> },
    spawn |-> {TRUE}, codes |-> {0}, stderr |-> { {} },
    upload |-> {"ok"}, rm |-> {TRUE}, sizes |-> {MAX_FILE_SIZE} ]

InitPool == InitWith(1..NPool, PoolEnv) /\ NoCall

NextPool ==
  \E r \in Reqs :
    \/ Arrive(r, PoolEnv)
    \/ CreateWorkspace(r, PoolEnv)
    \/ \E k \in 1..UrlsPerReq : DownloadDone(r, k, TRUE)
    \/ RunStart(r, PoolEnv)
    \/ ProcExit(r)
    \/ CloseEvent(r, PoolEnv)
    \/ RunReturn(r)
    \/ CleanupDone(r, PoolEnv)

SpecPool == InitPool /\ [][NextPool]_vars

\* the front end of the handler on every command text: one request whose
\* later stages meet no failure but a nonzero exit code
CmdEnv ==
  [ cpus |-> {1}, bucket |-> {TRUE}, cmds |-> AllTexts,
    mkdir |-> {"ok"}, urls |-> {0, 1}, outs |-> { <<nX>> },
    spawn |-> {TRUE}, codes |-> {0, 1}, stderr |-> { {} },
    upload |-> {"ok"}, rm |-> {TRUE}, sizes |-> {MAX_FILE_SIZE} ]

InitCmd == InitWith({1}, CmdEnv) /\ NoCall

NextCmd ==
  \E r \in Reqs :
    \/ Arrive(r, CmdEnv)
    \/ CreateWorkspace(r, CmdEnv)
    \/ DownloadDone(r, 1, TRUE)
    \/ RunStart(r, CmdEnv)
    \/ ProcExit(r)
    \/ CloseEvent(r, CmdEnv)
    \/ Upload(r, CmdEnv)
    \/ RunReturn(r)
    \/ RunThrow(r)
    \/ CleanupDone(r, CmdEnv)

SpecCmd == InitCmd /\ [][NextCmd]_vars

\* the upload stage on files of every size around the limit: one request
\* whose subprocess succeeds, with or without a bucket, against a backend
\* that may refuse an object
UploadEnv ==
  [ cpus |-> {1}, bucket |-> BOOLEAN, cmds |-> {cmdOk},
    mkdir |-> {"ok"}, urls |-> {0}, outs |-> OutputLists,
    spawn |-> {TRUE}, codes |-> {0}, stderr |-> { {} },
    upload |-> UploadResults, rm |-> {TRUE},
    sizes |-> {0, MAX_FILE_SIZE - 1, MAX_FILE_SIZE, MAX_FILE_SIZE + 1,
               2 * MAX_FILE_SIZE} ]

InitUpload == InitWith({1}, UploadEnv) /\ NoCall

NextUpload ==
  \E r \in Reqs :
    \/ Arrive(r, UploadEnv)
    \/ CreateWorkspace(r, UploadEnv)
    \/ RunStart(r, UploadEnv)
    \/ ProcExit(r)
    \/ CloseEvent(r, UploadEnv)
    \/ Upload(r, UploadEnv)
    \/ RunReturn(r)
    \/ RunThrow(r)
    \/ CleanupDone(r, UploadEnv)

SpecUpload == InitUpload /\ [][NextUpload]_vars

\* ------------------------------------------- functions called on their own
\* An idle server in which one function is called with the argument fnArgs.
serverVars ==
  << cpuCount, bucketSet, issued, reqId, command, pc, workspace, dirs, files,
     dl, dlWaiting, slots, waiting, proc, timeoutId, isTimedOut, calls,
     outcome, outputFiles, upIdx, storage, resp, nTmpCleanup, nWsCleanup,
     thrown, rmFailed, sent >>
CalledWith(args) == InitWith({1}, CmdEnv) /\ fnArgs \in args /\ fnRet = <<>>
Returns(v) == fnRet = <<>> /\ fnRet' = << v >> /\ UNCHANGED << serverVars, fnArgs >>
Returned == fnRet # <<>>

\* the errors that reach the handler's catch block: every `new Error(...)`
\* of runFFmpeg, parseArgs, downloadFile and uploadToSupabase, and the
\* system error of a failed stat()
ProgramErrors ==
  { TimeoutError, SpawnError, EmptyArgsError, OperatorError, BucketError,
    StatError, SizeError(MAX_FILE_SIZE + 1), BackendError }
  \cup { ExitError(c, t) : c \in ExitCodes \ {0}, t \in StderrTexts }
  \cup { DownloadError(k) : k \in 1..MaxUrls }

\* the catch block of the handler answering two failed requests
InitClassify == CalledWith(ProgramErrors \X ProgramErrors)
Classify == Returns(<< ErrorResponse(fnArgs[1]), ErrorResponse(fnArgs[2]) >>)
NextClassify == Classify
SpecClassify == InitClassify /\ [][NextClassify]_vars

\* extractUrls(argsString): argsString.match(/https?:\/\/[^\s]+/g), every
\* match pushed.  The text is a sequence of whitespace ("sp"), the two
\* scheme prefixes and other characters; a match starts at a scheme prefix
\* that is followed by a character other than whitespace and runs up to the
\* next whitespace, and the search goes on behind it.
MaxUrlLen == 5
UrlChars == {"sp", "http://", "https://", "a", "b"}
UrlTexts == UNION { [1..n -> UrlChars] : n \in 0..MaxUrlLen }
isScheme(c) == c \in {"http://", "https://"}
MatchEnd(text, i) ==
  CHOOSE j \in i..Len(text) :
    /\ \A m \in (i + 1)..j : text[m] # "sp"
    /\ j = Len(text) \/ text[j + 1] = "sp"
MatchesAt(text, i) ==
  isScheme(text[i]) /\ i < Len(text) /\ text[i + 1] # "sp"
RECURSIVE MatchAll(_, _, _)
MatchAll(text, i, urls) ==
  IF i > Len(text) THEN urls
  ELSE IF MatchesAt(text, i)
    THEN MatchAll(text, MatchEnd(text, i) + 1,
                  Append(urls, SubSeq(text, i, MatchEnd(text, i))))
    ELSE MatchAll(text, i + 1, urls)
extractUrls(argsString) == MatchAll(argsString, 1, <<>>)

InitUrls == CalledWith(UrlTexts)
ExtractUrls == Returns(extractUrls(fnArgs))
NextUrls == ExtractUrls
SpecUrls == InitUrls /\ [][NextUrls]_vars

\* parseOutputFiles(args).  An argument is the sequence of its characters; a
\* run of characters of a name (none of them "-", "[", "=", ":" or "/") is
\* written as one element.
\* Flags that require a value (skip next arg)
flagsWithValues ==
  { << "-", "i" >>,
    << "-", "f" >>,
    << "-", "c" >>,
    << "-", "c", "o", "d", "e", "c" >>,
    << "-", "v", "c", "o", "d", "e", "c" >>,
    << "-", "a", "c", "o", "d", "e", "c" >>,
    << "-", "b", ":", "v" >>,
    << "-", "b", ":", "a" >>,
    << "-", "r" >>,
    << "-", "s" >>,
    << "-", "a", "r" >>,
    << "-", "a", "c" >>,
    << "-", "v", "f" >>,
    << "-", "a", "f" >>,
    << "-", "t" >>,
    << "-", "s", "s" >>,
    << "-", "t", "o" >>,
    << "-", "f", "r", "a", "m", "e", "s", ":", "v" >>,
    << "-", "f", "r", "a", "m", "e", "s", ":", "a" >>,
    << "-", "m", "e", "t", "a", "d", "a", "t", "a" >>,
    << "-", "f", "i", "l", "t", "e", "r", "_", "c", "o", "m", "p", "l", "e", "x" >>,
    << "-", "l", "a", "v", "f", "i" >>,
    << "-", "m", "a", "p" >>,
    << "-", "m", "a", "p", "_", "m", "e", "t", "a", "d", "a", "t", "a" >>,
    << "-", "d", "i", "s", "p", "o", "s", "i", "t", "i", "o", "n" >>,
    << "-", "s", "t", "r", "e", "a", "m", "_", "l", "o", "o", "p" >>,
    << "-", "i", "t", "s", "o", "f", "f", "s", "e", "t" >>,
    << "-", "c", "r", "f" >>,
    << "-", "p", "r", "e", "s", "e", "t" >>,
    << "-", "p", "r", "o", "f", "i", "l", "e" >>,
    << "-", "l", "e", "v", "e", "l" >>,
    << "-", "q", "s", "c", "a", "l", "e" >>,
    << "-", "g" >>,
    << "-", "b", "f" >>,
    << "-", "m", "a", "x", "r", "a", "t", "e" >>,
    << "-", "b", "u", "f", "s", "i", "z", "e" >>,
    << "-", "p", "i", "x", "_", "f", "m", "t" >> }

tEmpty == << >>
tInput == << "-", "i" >>
tDuration == << "-", "t" >>
tCodecV == << "-", "c", ":", "v" >>
tCopyts == << "-", "c", "o", "p", "y", "t", "s" >>
tOut == << "out.mp4" >>
tFilter == << "scale", "=", "1280", ":", "720" >>
tLabel == << "[", "0", ":", "v", "]" >>
tUrl == << "http", ":", "/", "/", "host", "/", "in.mp4" >>
OutTokens ==
  { tEmpty, tInput, tDuration, tCodecV, tCopyts, tOut, tFilter, tLabel, tUrl }

\* the documented examples
ArgsOneOutput ==
  << tInput, << "in.mp4" >>, tCodecV, << "libx264" >>, tOut >>
ArgsTwoOutputs ==
  << tInput, << "a.mp4" >>, tInput, << "b.mp4" >>, << "x.mp4" >>, << "y.mp4" >> >>

MaxTokens == 4
ArgVectors ==
  UNION { [1..n -> OutTokens] : n \in 0..MaxTokens }
    \cup {ArgsOneOutput, ArgsTwoOutputs}

includes(arg, part) ==
  \E i \in 1..Len(arg) :
    i + Len(part) - 1 <= Len(arg) /\ SubSeq(arg, i, i + Len(part) - 1) = part

\* flagsWithValues.some(flag => arg === flag || arg.startsWith(flag + ":"))
requiresValueExact(arg) == arg \in flagsWithValues
requiresValue(arg) ==
  \E flag \in flagsWithValues :
    arg = flag \/ startsWith(arg, flag \o << ":" >>)

\* arg.startsWith("[") || arg.includes("://") || arg.includes("=")
NotAPathLoose(arg) ==
  startsWith(arg, << "[" >>) \/ includes(arg, << ":", "/", "/" >>)
NotAPath(arg) ==
  \/ startsWith(arg, << "[" >>)
  \/ includes(arg, << ":", "/", "/" >>)
  \/ includes(arg, << "=" >>)

\* the loop of parseOutputFiles from index i on; `outputs` holds the indexes
\* of the arguments pushed so far
RECURSIVE ScanArgs(_, _, _, _, _)
ScanArgs(args, i, skipNext, isAfterInput, outputs) ==
  IF i > Len(args) THEN outputs
  ELSE LET arg == args[i] IN
    IF arg = << >>
      THEN ScanArgs(args, i + 1, skipNext, isAfterInput, outputs)
    ELSE IF skipNext
      THEN ScanArgs(args, i + 1, FALSE, isAfterInput, outputs)
    ELSE IF arg = tInput
      THEN ScanArgs(args, i + 1, TRUE, TRUE, outputs)
    ELSE IF startsWith(arg, << "-" >>)
      THEN ScanArgs(args, i + 1, requiresValue(arg), isAfterInput, outputs)
    ELSE IF NotAPath(arg)
      THEN ScanArgs(args, i + 1, skipNext, isAfterInput, outputs)
    ELSE IF isAfterInput /\ ~startsWith(arg, << "-" >>)
      THEN ScanArgs(args, i + 1, skipNext, isAfterInput, Append(outputs, i))
    ELSE ScanArgs(args, i + 1, skipNext, isAfterInput, outputs)
OutputIndexes(args) == ScanArgs(args, 1, FALSE, FALSE, << >>)
parseOutputFiles(args) ==
  [k \in 1..Len(OutputIndexes(args)) |-> args[OutputIndexes(args)[k]]]

InitOutputs == CalledWith(ArgVectors)
ParseOutputFiles == Returns(parseOutputFiles(fnArgs))
NextOutputs == ParseOutputFiles
SpecOutputs == InitOutputs /\ [][NextOutputs]_vars

\* the start of runFFmpeg on an argument vector: parseOutputFiles,
\* resolveOutputPaths and replaceOutputPaths, in the outputs directory of
\* one request
tempDirOfCall == OutputsDir(1)
modifiedArgs(args) ==
  replaceOutputPaths(args,
    resolveOutputPaths(parseOutputFiles(args), tempDirOfCall))
InitReplace == CalledWith(ArgVectors)
ReplaceOutputPaths == Returns(modifiedArgs(fnArgs))
NextReplace == ReplaceOutputPaths
SpecReplace == InitReplace /\ [][NextReplace]_vars

\* resolveOutputPaths on declared output names with directory components
\* and ".." segments; a name is the sequence of its segments
MaxOutputs == 3
OutNames ==
  { << "x.mp4" >>, << "y.mp4" >>, << "a", "x.mp4" >>, << "b", "x.mp4" >>,
    << ".." >>, << "a", ".." >> }
OutNameLists == UNION { [1..n -> OutNames] : n \in 0..MaxOutputs }
InitResolve == CalledWith(OutNameLists)
ResolveOutputPaths == Returns(resolveOutputPaths(fnArgs, tempDirOfCall))
NextResolve == ResolveOutputPaths
SpecResolve == InitResolve /\ [][NextResolve]_vars

\* the storage keys of a series of uploadToSupabase calls, of one job or of
\* several: each call reads the clock (Date.now(), in milliseconds, never
\* going back) and uploads with upsert: false, so the backend refuses a key
\* that is already in the bucket.  The names of one job are the keys of its
\* pathMap and so differ.
MaxUploads == 2
MaxTick == 2
UploadCalls ==
  [job : 1..MaxUploads, now : 1..MaxTick,
   name : { << "x.mp4" >>, << "a", "x.mp4" >>, << "y.mp4" >> }]
UploadSeries ==
  { c \in UNION { [1..n -> UploadCalls] : n \in 0..MaxUploads } :
      /\ \A i \in 1..(Len(c) - 1) : c[i].now <= c[i + 1].now
      /\ \A i, j \in 1..Len(c) :
           (i # j /\ c[i].job = c[j].job) => c[i].name # c[j].name }
\* `${timestamp}-${basename(originalFilename)}`
storagePath(timestamp, originalFilename) ==
  << timestamp, basename(originalFilename) >>
RECURSIVE UploadAll(_, _, _)
UploadAll(c, bucket, results) ==
  IF c = << >> THEN results
  ELSE LET key == storagePath(Head(c).now, Head(c).name) IN
       IF key \in bucket
         THEN UploadAll(Tail(c), bucket,
                Append(results, [path |-> key, error |-> "Duplicate"]))
         ELSE UploadAll(Tail(c), bucket \cup {key},
                Append(results, [path |-> key, error |-> ""]))
InitKeys == CalledWith(UploadSeries)
UploadSeriesDone == Returns(UploadAll(fnArgs, {}, << >>))
NextKeys == UploadSeriesDone
SpecKeys == InitKeys /\ [][NextKeys]_vars

\* the local paths of two downloads of one request.  A locator is given by
\* its host and by the last segment of its path (a sequence of characters,
\* empty when the path ends in "/"); each downloadFile call reads the clock
\* when it needs the fallback name, and the calls of one request run
\* concurrently.
Locators ==
  [host : {"a", "b"}, file : { << "v", ".", "mp4" >>, << "stream" >>, << >> }]
Downloads == [url : Locators, now : 1..MaxTick]
\* extractFilename(url): basename(new URL(url).pathname) if it holds a dot,
\* otherwise `input-${Date.now()}.bin`
extractFilename(url, now) ==
  IF url.file # << >> /\ includes(url.file, << "." >>)
    THEN url.file
    ELSE << "input-", << now >>, ".bin" >>
\* join(targetDir, filename)
localPath(url, now, targetDir) == targetDir \o << extractFilename(url, now) >>
InitNames == CalledWith(Downloads \X Downloads)
DownloadInputs ==
  Returns(<< localPath(fnArgs[1].url, fnArgs[1].now, InputsDir(1)),
             localPath(fnArgs[2].url, fnArgs[2].now, InputsDir(1)) >>)
NextNames == DownloadInputs
SpecNames == InitNames /\ [][NextNames]_vars

\* the handler from extractUrls to replaceUrlsWithPaths, all downloads
\* succeeding.  The text holds whitespace, a scheme prefix, "/", a run of
\* name characters with a dot ("a.b") and the two characters "$&".
MaxRewriteLen == 6
RewriteChars == {"sp", "http://", "/", "a.b", "$&"}
RewriteTexts == UNION { [1..n -> RewriteChars] : n \in 0..MaxRewriteLen }
\* the position of the last "/" behind the scheme prefix, 0 if there is
\* none; a scheme prefix inside the locator ends with a "/" too
endsWithSlash(c) == c = "/" \/ isScheme(c)
LastSlash(url) ==
  IF \E i \in 2..Len(url) : endsWithSlash(url[i])
    THEN CHOOSE i \in 2..Len(url) :
           /\ endsWithSlash(url[i])
           /\ \A j \in (i + 1)..Len(url) : ~endsWithSlash(url[j])
    ELSE 0
\* basename(new URL(url).pathname)
urlBasename(url) ==
  IF LastSlash(url) = 0 THEN << >>
  ELSE SubSeq(url, LastSlash(url) + 1, Len(url))
\* join(workspace.inputsDir, extractFilename(url)) as text
localPathText(url) ==
  IF urlBasename(url) # << >> /\ includes(urlBasename(url), << "a.b" >>)
    THEN << "inputs/" >> \o urlBasename(url)
    ELSE << "inputs/", "input-now.bin" >>
downloadedInputs(urls) ==
  [k \in 1..Len(urls) |-> [url |-> urls[k], localPath |-> localPathText(urls[k])]]

\* String.prototype.replace(pattern, replacement) with two strings: the
\* first occurrence of the pattern is replaced, and "$&" in the replacement
\* stands for the matched text
indexOf(str, pattern) ==
  IF includes(str, pattern)
    THEN CHOOSE i \in 1..Len(str) :
           /\ i + Len(pattern) - 1 <= Len(str)
           /\ SubSeq(str, i, i + Len(pattern) - 1) = pattern
           /\ \A j \in 1..(i - 1) :
                SubSeq(str, j, j + Len(pattern) - 1) # pattern
    ELSE 0
RECURSIVE GetSubstitution(_, _)
GetSubstitution(matched, replacement) ==
  IF replacement = << >> THEN << >>
  ELSE (IF Head(replacement) = "$&" THEN matched ELSE << Head(replacement) >>)
         \o GetSubstitution(matched, Tail(replacement))
replace(str, pattern, replacement) ==
  IF indexOf(str, pattern) = 0 THEN str
  ELSE SubSeq(str, 1, indexOf(str, pattern) - 1)
         \o GetSubstitution(pattern, replacement)
         \o SubSeq(str, indexOf(str, pattern) + Len(pattern), Len(str))
RECURSIVE replaceUrlsWithPaths(_, _)
replaceUrlsWithPaths(argsString, inputs) ==
  IF inputs = << >> THEN argsString
  ELSE replaceUrlsWithPaths(
         replace(argsString, Head(inputs).url, Head(inputs).localPath),
         Tail(inputs))
InitRewrite == CalledWith(RewriteTexts)
ReplaceUrls ==
  Returns(replaceUrlsWithPaths(fnArgs, downloadedInputs(extractUrls(fnArgs))))
NextRewrite == ReplaceUrls
SpecRewrite == InitRewrite /\ [][NextRewrite]_vars

\* parseArgs(argsString) on every text of up to MaxCmdLen characters
InitParse == CalledWith(AllTexts)
ParseArgs == Returns(parseArgs(fnArgs))
NextParse == ParseArgs
SpecParse == InitParse /\ [][NextParse]_vars
\* ------------------------------------------------------------ properties
Done(r) == pc[r] = "done"
Responded(r) == pc[r] \in {"cleanup", "done"}
Active(r) == workspace[r] = "created" /\ pc[r] # "done"
UploadFailed(r) ==
  [thrown[r] EXCEPT !.bytes = 0] \in
    {BucketError, StatError, SizeError(0), BackendError}
InWorkspace(id) == { p \in dirs \cup files : IsPrefix(WorkspaceRoot(id), p) }
StoredBy(r) == { o \in storage : o[1] = reqId[r] }
UploadsDone(r) == upIdx[r] = Len(PathKeys(r))
Disjoint(p, q) == ~IsPrefix(p, q) /\ ~IsPrefix(q, p)

\* C1: at every moment the number of ffmpeg subprocesses that were spawned
\* and have not yet exited is at most maxConcurrent.
C1_ConcurrencyBound ==
  Cardinality({ r \in Reqs : Alive(r) }) <= maxConcurrent

\* C2: a job keeps its ffmpegQueue slot until its subprocess has exited, so
\* a live subprocess always belongs to a job that holds a slot, also after a
\* timeout.
C2_SlotKeptWhileAlive ==
  \A r \in Reqs : Alive(r) => r \in slots

\* C3: once the timeout timer has fired, the subprocess has been sent SIGKILL,
\* the timeout rejection is the only resolve/reject call ever made for the
\* job, and the response is errorType timeout with status 408.
C3_TimeoutWins ==
  \A r \in Reqs :
    isTimedOut[r] =>
      /\ proc[r] \in {"killed", "exited", "closed"}
      /\ calls[r] = << "timeout" >>
      /\ outcome[r] = "timeout"
      /\ Responded(r) =>
           /\ Len(resp[r]) = 1
           /\ resp[r][1].success = FALSE
           /\ resp[r][1].errorType = "timeout"
           /\ resp[r][1].status = 408

\* a timed-out job whose subprocess later delivered its close event, after
\* the handler had finished
C3_Witness ==
  \E r \in Reqs : isTimedOut[r] /\ proc[r] = "closed" /\ Done(r)

\* C4: whatever the order of the timeout, close and error events, the outcome
\* of the job is the one of the first event, later events leave it as it is,
\* and at most one response, agreeing with that outcome, is sent.
C4_DecidedOnce ==
  \A r \in Reqs :
    /\ (calls[r] = <<>>) <=> (outcome[r] = "pending")
    /\ calls[r] # <<>> => outcome[r] = calls[r][1]
    /\ Len(resp[r]) <= 1
    /\ (calls[r] # <<>> /\ resp[r] # <<>>) =>
         CASE calls[r][1] = "spawn" -> resp[r][1].errorType = "spawn"
           [] calls[r][1] = "timeout" -> resp[r][1].errorType = "timeout"
           [] calls[r][1] = "exit" -> resp[r][1].success = FALSE
           [] OTHER -> TRUE

\* the error event decided the job and a close event followed it
C4_Witness ==
  \E r \in Reqs : calls[r] = << "spawn", "exit" >> /\ Done(r)

\* C5: for every request whose workspace was created, once the handler has
\* returned nothing of the workspace is left on disk, on success and after a
\* failure of any stage (the removal itself not failing).
C5_WorkspaceAbsent ==
  \A r \in Reqs :
    (Done(r) /\ workspace[r] = "created" /\ ~rmFailed[r]) =>
      InWorkspace(reqId[r]) = {}

\* the handler returned after a failed download, and the fetches that were
\* still running have finished too
C5_Witness ==
  \E r \in Reqs :
    /\ Done(r) /\ workspace[r] = "created" /\ ~rmFailed[r]
    /\ (\E k \in 1..MaxUrls : thrown[r] = DownloadError(k)) /\ dl[r] = {}

\* C6: cleanupRequestWorkspace runs exactly once for a request that created
\* its workspace, and cleanupTempFiles runs exactly once for a job whose
\* subprocess was started.
C6_CleanupOnce ==
  \A r \in Reqs :
    (Done(r) /\ workspace[r] = "created") =>
      /\ nWsCleanup[r] = 1
      /\ calls[r] # <<>> => nTmpCleanup[r] = 1

\* C7: when uploadToSupabase fails for one output file, the response is a
\* failure of errorType storage, no further file of the job is uploaded, and
\* the job's local output files are gone.
C7_UploadFailureIsStorage ==
  \A r \in Reqs :
    (UploadFailed(r) /\ Responded(r)) =>
      /\ resp[r][1].success = FALSE
      /\ resp[r][1].errorType = "storage"
      /\ Cardinality(StoredBy(r)) = upIdx[r]
      /\ TempPaths(reqId[r], outputFiles[r]) \cap files = {}

\* C8: every request gets exactly one response, a success or a failure with
\* an errorType of the taxonomy, and a success lists one uploaded artifact
\* per declared output.
C8_OneCategorizedResponse ==
  \A r \in Reqs :
    Responded(r) =>
      /\ Len(resp[r]) = 1
      /\ resp[r][1].success \/ resp[r][1].errorType \in ErrorTypes
      /\ resp[r][1].success =>
           /\ Len(resp[r][1].outputs) = Len(outputFiles[r])
           /\ \A i \in 1..Len(outputFiles[r]) :
                StorageObject(reqId[r], outputFiles[r][i]) \in storage

\* C9: after the upload loop failed at entry k, the k-1 objects uploaded
\* before it are still in the bucket, and the response is a failure without
\* an outputs list.
C9_NoRetraction ==
  \A r \in Reqs :
    UploadFailed(r) =>
      /\ \A i \in 1..upIdx[r] :
           StorageObject(reqId[r], PathKeys(r)[i]) \in storage
      /\ resp[r] # <<>> =>
           /\ resp[r][1].success = FALSE
           /\ resp[r][1].hasOutputs = FALSE
           /\ resp[r][1].outputs = <<>>

\* the second of two uploads failed and the failure was reported
C9_Witness ==
  \E r \in Reqs : UploadFailed(r) /\ upIdx[r] = 1 /\ Done(r)

\* C10: two requests that are active at the same time have different
\* workspace roots, and their inputs and outputs directories are disjoint.
C10_DistinctWorkspaces ==
  \A r1, r2 \in Reqs :
    (r1 # r2 /\ Active(r1) /\ Active(r2)) =>
      /\ WorkspaceRoot(reqId[r1]) # WorkspaceRoot(reqId[r2])
      /\ \A d1 \in {InputsDir(reqId[r1]), OutputsDir(reqId[r1])},
            d2 \in {InputsDir(reqId[r2]), OutputsDir(reqId[r2])} :
           Disjoint(d1, d2)

\* two requests hold a workspace at the same time
C10_Witness ==
  \E r1, r2 \in Reqs : r1 # r2 /\ Active(r1) /\ Active(r2)

Accepted(r) == pc[r] # "new" /\ schemaAccepts(command[r])
Tokens(r) == shellParse(trim(argsOf(command[r])))
NothingStarted(r) ==
  /\ workspace[r] = "none"
  /\ InWorkspace(reqId[r]) = {}
  /\ dl[r] = {} /\ QueuedOf(r) = {}
  /\ proc[r] = "none"

\* C11: for every command whose tokenization yields a shell operator entry,
\* no subprocess is ever spawned and the request is answered with errorType
\* parse, status 400.
C11_OperatorIsParse ==
  \A r \in Reqs :
    (Accepted(r) /\ HasOp(Tokens(r))) =>
      /\ proc[r] = "none"
      /\ Responded(r) =>
           /\ Len(resp[r]) = 1
           /\ resp[r][1].errorType = "parse"
           /\ resp[r][1].status = 400

C13_NonzeroExitIsExecution ==
  \A r \in Reqs :
    (Responded(r) /\ calls[r] # <<>>) =>
      /\ calls[r][1] = "exit" =>
           /\ resp[r][1].success = FALSE
           /\ resp[r][1].errorType = "execution"
      /\ (calls[r][1] = "success" /\ ~UploadFailed(r)) => resp[r][1].success

\* C14: the failure response of a job whose subprocess closed with a nonzero
\* exit code carries that code in exitCode, -1 for a null code.
C14_ExitCodeReported ==
  \A r \in Reqs :
    (Responded(r) /\ calls[r] # <<>> /\ calls[r][1] = "exit"
       /\ resp[r][1].errorType = "execution") =>
      resp[r][1].exitCode = << thrown[r].code >>

\* C15: a job whose spawn failed (error event first) is answered with
\* errorType spawn, status 500, also when a close event followed.
C15_SpawnFailureIsSpawn ==
  \A r \in Reqs :
    (calls[r] # <<>> /\ calls[r][1] = "spawn") =>
      /\ outcome[r] = "spawn"
      /\ Responded(r) =>
           /\ Len(resp[r]) = 1
           /\ resp[r][1].success = FALSE
           /\ resp[r][1].errorType = "spawn"
           /\ resp[r][1].status = 500

\* the close event of the failed spawn arrived before the response was sent
C15_Witness ==
  \E r \in Reqs :
    /\ calls[r] # <<>> /\ calls[r][1] = "spawn" /\ Len(calls[r]) = 2
    /\ proc[r] = "closed"
    /\ resp[r] # <<>> /\ resp[r][1].errorType = "spawn"

\* C16: at every moment at most 12 downloads are in flight, counted over all
\* requests.
C16_DownloadBound == activeCount <= DownloadLimit

\* the pool is full with the downloads of several requests and more wait
C16_Witness ==
  /\ activeCount = DownloadLimit
  /\ dlWaiting # <<>>
  /\ \E r1, r2 \in Reqs : r1 # r2 /\ dl[r1] # {} /\ dl[r2] # {}

DownloadFailed(r) == \E k \in 1..MaxUrls : thrown[r] = DownloadError(k)
InputFile(r, k) == InputsDir(reqId[r]) \o << <<"url", k>> >>
InQueue(r) == r \in slots \/ r \in SeqToSet(waiting)

\* C17: when one fetch of a request fails, downloadInputs fails with an error
\* naming the locator whose fetch failed, the request is answered with a
\* failure, and it never enters the execution queue nor spawns a subprocess.
C17_DownloadFailsWhole ==
  \A r \in Reqs :
    thrown[r].marks = {"Failed to download"} =>
      /\ thrown[r].url \in 1..MaxUrls
      /\ InputFile(r, thrown[r].url) \notin files
      /\ Responded(r)
      /\ Len(resp[r]) = 1 /\ resp[r][1].success = FALSE
      /\ ~InQueue(r)
      /\ proc[r] = "none" /\ outputFiles[r] = <<>>

\* one locator of the request was fetched and written, another one failed
C17_Witness ==
  \E r \in Reqs :
    /\ DownloadFailed(r)
    /\ \E k \in 1..MaxUrls : InputFile(r, k) \in files

\* C18: a request that holds or waits for an execution slot has no download
\* in flight and none queued.
C18_OnePoolAtATime ==
  \A r \in Reqs : InQueue(r) => (dl[r] = {} /\ QueuedOf(r) = {})

\* a job holds an execution slot while the download pool serves another
\* request
C18_Witness ==
  \E r1, r2 \in Reqs : r1 # r2 /\ r1 \in slots /\ dl[r2] # {}

\* C19: no subprocess is spawned before all downloads of the request have
\* finished, no upload starts before the subprocess has closed with code 0,
\* and workspace cleanup starts only after the last upload attempt is over.
C19_StageOrder ==
  \A r \in Reqs :
    /\ proc[r] # "none" => (dl[r] = {} /\ QueuedOf(r) = {})
    /\ (pc[r] = "uploading" \/ upIdx[r] > 0 \/ UploadFailed(r)) =>
         (proc[r] = "closed" /\ calls[r] = << "success" >>)
    /\ nWsCleanup[r] > 0 =>
         /\ pc[r] \in {"cleanup", "done"}
         /\ (calls[r] # <<>> /\ calls[r][1] = "success") =>
              (UploadsDone(r) \/ UploadFailed(r))

\* a request went through download, run and two uploads and has started its
\* cleanup
C19_Witness ==
  \E r \in Reqs :
    /\ pc[r] = "cleanup" /\ upIdx[r] = 2
    /\ InputFile(r, 1) \in files
    /\ resp[r] # <<>> /\ resp[r][1].success

\* C20: in both pools a waiting job is started only when it is the one that
\* has waited longest, a newly submitted job goes behind all waiting ones,
\* and a job starts at once only when nothing is waiting.
C20_FifoAdmission ==
  [][ /\ \A r \in Reqs :
           /\ (pc[r] = "waiting" /\ pc'[r] = "admitted") =>
                (waiting # <<>> /\ r = Head(waiting) /\ waiting' = Tail(waiting))
           /\ (pc[r] # "waiting" /\ pc'[r] = "waiting") =>
                waiting' = Append(waiting, r)
           /\ (pc[r] \notin {"waiting", "admitted"} /\ pc'[r] = "admitted") =>
                waiting = <<>>
           /\ \A k \in dl'[r] \ dl[r] :
                IF k \in QueuedOf(r)
                  THEN Head(dlWaiting) = <<r, k>> /\ dlWaiting' = Tail(dlWaiting)
                  ELSE dlWaiting = <<>>
      /\ \/ IsPrefix(dlWaiting, dlWaiting')
         \/ (dlWaiting # <<>> /\ dlWaiting' = Tail(dlWaiting))
    ]_vars

\* two jobs wait for an execution slot, after more downloads than the
\* download pool has slots have gone through it
C20_Witness ==
  /\ Len(waiting) >= 2
  /\ Cardinality(files) > DownloadLimit

\* C21: once the handler of a request has returned (response sent, workspace
\* cleanup done), no fetch of the request is running or waiting for the
\* download pool, its subprocess is not alive and it holds no ffmpegQueue
\* slot or position.
C21_NothingOutlivesHandler ==
  \A r \in Reqs :
    Done(r) =>
      /\ dl[r] = {} /\ QueuedOf(r) = {}
      /\ ~Alive(r)
      /\ ~InQueue(r)

\* C22: while a request uploads its output files it holds no ffmpegQueue
\* slot.
C22_UploadOutsideQueue ==
  \A r \in Reqs : pc[r] = "uploading" => r \notin slots

\* C23: for a command that parseArgs rejects (operator entry or empty
\* vector), no download is ever started, no input file is written and no
\* ffmpegQueue position is taken.
C23_ParseBeforeFetch ==
  \A r \in Reqs :
    (Accepted(r) /\ parseArgs(argsOf(command[r])).err # NoErr) =>
      /\ dl[r] = {} /\ QueuedOf(r) = {}
      /\ \A k \in 1..MaxUrls : InputFile(r, k) \notin files
      /\ ~InQueue(r)

NoDuplicates(q) == \A i, j \in 1..Len(q) : q[i] = q[j] => i = j

\* C24: no stage is repeated for a request: a subprocess is spawned only for
\* a request that never had one, a fetch starts only when the handler calls
\* downloadInputs or when it is taken from the head of the download queue
\* (where every locator occurrence stands at most once and only if it is not
\* already running), downloadInputs is called only once, and the upload loop
\* is entered once, goes through the entries one by one and stops at the
\* first failure.
C24_NoRetry ==
  [][ \A r \in Reqs :
        /\ proc'[r] # proc[r] =>
             /\ proc'[r] # "none"
             /\ proc'[r] \in {"running", "failed"} => proc[r] = "none"
        /\ pc'[r] = "mkdir" => pc[r] \in {"new", "mkdir"}
        /\ pc[r] = "new" => dl[r] = {} /\ QueuedOf(r) = {} /\ upIdx[r] = 0
        /\ \A k \in dl'[r] \ dl[r] :
             \/ pc[r] = "mkdir"
             \/ (dlWaiting # <<>> /\ Head(dlWaiting) = <<r, k>>
                   /\ dlWaiting' = Tail(dlWaiting))
        /\ pc[r] # "mkdir" => QueuedOf(r)' \subseteq QueuedOf(r)
        /\ NoDuplicates(dlWaiting') /\ QueuedOf(r)' \cap dl'[r] = {}
        /\ (pc[r] # "uploading" /\ pc'[r] = "uploading") =>
             pc[r] = "running" /\ upIdx[r] = 0 /\ ~UploadFailed(r)
        /\ (upIdx'[r] # upIdx[r] \/ sent'[r] # sent[r]
              \/ (nTmpCleanup'[r] # nTmpCleanup[r] /\ pc'[r] = "uploading")) =>
             /\ pc[r] = "uploading" /\ ~UploadFailed(r)
             /\ upIdx'[r] \in {upIdx[r], upIdx[r] + 1}
        /\ UploadFailed(r)' => pc'[r] # "uploading"
    ]_vars

\* the first of two output files is in the bucket, the upload of the second
\* failed, and both inputs of the request had been fetched
C24_Witness ==
  \E r \in Reqs :
    /\ UploadFailed(r) /\ upIdx[r] = 1 /\ pc[r] = "settling"
    /\ proc[r] = "closed"
    /\ InputFile(r, 1) \in files /\ InputFile(r, 2) \in files

\* C27: a failed removal of the workspace is not propagated: the handler
\* still returns, and the request has the one response that was chosen
\* before the cleanup, a success when nothing was thrown and otherwise the
\* classification of the error that was thrown.
C27_CleanupFailureSwallowed ==
  \A r \in Reqs :
    rmFailed[r] =>
      /\ Done(r)
      /\ Len(resp[r]) = 1
      /\ thrown[r] = NoErr =>
           resp[r][1] = SuccessResponse(Uploaded(r, upIdx[r]))
      /\ thrown[r] # NoErr => resp[r][1] = ErrorResponse(thrown[r])

\* the removal failed after a success with two uploaded files was sent
C27_Witness ==
  \E r \in Reqs :
    rmFailed[r] /\ resp[r] # <<>> /\ resp[r][1].success /\ upIdx[r] = 2

SizeFailed(r) == Has(thrown[r], "exceeds maximum size")

\* C25: no buffer of more than 104857600 bytes is handed to storage.upload;
\* the size check fails only for files of at least 104857601 bytes, and the
\* job is then answered with a failure of errorType storage.
C25_SizeLimit ==
  \A r \in Reqs :
    /\ \A size \in sent[r] : size <= 104857600
    /\ SizeFailed(r) =>
         /\ thrown[r].bytes >= 104857601
         /\ Responded(r) =>
              /\ resp[r][1].success = FALSE
              /\ resp[r][1].errorType = "storage"

\* a file of exactly 104857600 bytes was uploaded, and the next file of the
\* job, of 104857601 bytes, made the job fail
C25_Witness ==
  \E r \in Reqs :
    /\ 104857600 \in sent[r] /\ upIdx[r] = 1
    /\ SizeFailed(r) /\ thrown[r].bytes = 104857601
    /\ Done(r)

\* C26: any two failure responses with the same errorType have the same
\* HTTP status.
C26_StatusByType ==
  Returned =>
    LET a == fnRet[1][1]
        b == fnRet[1][2]
    IN a.errorType = b.errorType => a.status = b.status

\* C28: the locators that extractUrls returns are pairwise different, so a
\* locator that occurs several times in the command is downloaded once.
C28_UrlsDeduplicated == Returned => NoDuplicates(fnRet[1])

\* C29: parseOutputFiles returns exactly [out.mp4] for
\* -i in.mp4 -c:v libx264 out.mp4 and exactly [x.mp4, y.mp4], in that order,
\* for -i a.mp4 -i b.mp4 x.mp4 y.mp4.
C29_DocumentedExamples ==
  Returned =>
    /\ fnArgs = ArgsOneOutput => fnRet[1] = << << "out.mp4" >> >>
    /\ fnArgs = ArgsTwoOutputs => fnRet[1] = << << "x.mp4" >>, << "y.mp4" >> >>

\* the call with the arguments of the first example has returned
C29_Witness == Returned /\ fnArgs = ArgsOneOutput /\ Len(fnRet[1]) = 1

\* the arguments before index p that are not empty strings
Before(args, p) == SelectSeq(SubSeq(args, 1, p - 1), LAMBDA t : t # << >>)
\* table flag or 'flag:specifier' form of one
IsValueFlag(t) ==
  \E flag \in flagsWithValues :
    t = flag \/ (Len(t) > Len(flag) /\ SubSeq(t, 1, Len(flag) + 1) = flag \o << ":" >>)
\* length of the unbroken run of value-consuming flags at the end of b
FlagRun(b) ==
  CHOOSE n \in 0..Len(b) :
    /\ \A m \in 1..n : IsValueFlag(b[Len(b) + 1 - m])
    /\ n = Len(b) \/ ~IsValueFlag(b[Len(b) - n])
OutputShape(args, p) ==
  /\ args[p] # << >>
  /\ args[p][1] # "-" /\ args[p][1] # "["
  /\ \A i \in 1..Len(args[p]) : args[p][i] # "="
  /\ \A i \in 1..(Len(args[p]) - 2) :
       ~(args[p][i] = ":" /\ args[p][i + 1] = "/" /\ args[p][i + 2] = "/")
  /\ \E j \in 1..(p - 1) : args[j] = << "-", "i" >>

\* C30 as stated: every returned token does not start with '-' or '[',
\* contains neither '=' nor '://', occurs after a -i flag, and is not the
\* token immediately following a value-consuming flag.
C30_OutputNeverFollowsFlag ==
  Returned =>
    \A k \in 1..Len(fnRet[1]) :
      LET p == OutputIndexes(fnArgs)[k] IN
      /\ fnRet[1][k] = fnArgs[p]
      /\ OutputShape(fnArgs, p)
      /\ p > 1 => ~IsValueFlag(fnArgs[p - 1])

\* C30 amended: every returned token does not start with '-' or '[',
\* contains neither '=' nor '://', occurs after a -i flag, and is not
\* consumed as the value of a flag: the unbroken run of value-consuming
\* flags directly before it (empty arguments aside) has even length, each
\* flag of such a run being the value of the flag before it.
C30_OutputNeverConsumed ==
  Returned =>
    \A k \in 1..Len(fnRet[1]) :
      LET p == OutputIndexes(fnArgs)[k] IN
      /\ fnRet[1][k] = fnArgs[p]
      /\ OutputShape(fnArgs, p)
      /\ FlagRun(Before(fnArgs, p)) % 2 = 0

\* a token is returned that stands right after a value-consuming flag which
\* is itself the file name given to -i
C30_Witness ==
  /\ Returned
  /\ fnArgs = << tInput, tCodecV, tOut >>
  /\ fnRet[1] = << tOut >>

EmptyVector(r) ==
  ~HasOp(Tokens(r)) /\ SelectSeq(Tokens(r), IsStr) = << >>

\* C31: when the arguments left after the "ffmpeg " prefix hold no value
\* token, no subprocess is spawned and the request is answered with
\* errorType parse, status 400.
C31_EmptyIsParse ==
  \A r \in Reqs :
    (Accepted(r) /\ EmptyVector(r)) =>
      /\ proc[r] = "none"
      /\ Responded(r) =>
           /\ Len(resp[r]) = 1
           /\ resp[r][1].errorType = "parse"
           /\ resp[r][1].status = 400

\* C40: when parseArgs does not fail, the vector it returns holds the text
\* of every entry of the tokenizer, in order.
C40_NoEntryDropped ==
  Returned =>
    LET parsed == shellParse(trim(fnArgs))
        res == fnRet[1]
    IN res.err = NoErr =>
         /\ Len(res.args) = Len(parsed)
         /\ \A i \in 1..Len(parsed) : res.args[i] = parsed[i].text

\* C33: every failure of the upload stage (bucket not configured, produced
\* file missing, file over the size limit, backend error) is answered with
\* errorType storage.
C33_UploadStageIsStorage ==
  \A r \in Reqs :
    (UploadFailed(r) /\ resp[r] # << >>) =>
      /\ resp[r][1].success = FALSE
      /\ resp[r][1].errorType = "storage"

\* C34: when creating the workspace directories failed, the request has got
\* one categorized failure response of the handler, and nothing of the
\* workspace is left on disk.
C34_MkdirFailureHandled ==
  \A r \in Reqs :
    (workspace[r] = "failed" /\ Done(r)) =>
      /\ Len(resp[r]) = 1
      /\ resp[r][1].success = FALSE
      /\ resp[r][1].errorType \in ErrorTypes
      /\ InWorkspace(reqId[r]) = {}

\* C35: output-path rewriting leaves every argument that was not classified
\* as an output as it is and where it is.
C35_OnlyOutputsRewritten ==
  Returned =>
    /\ Len(fnRet[1]) = Len(fnArgs)
    /\ \A i \in 1..Len(fnArgs) :
         i \notin SeqToSet(OutputIndexes(fnArgs)) => fnRet[1][i] = fnArgs[i]

\* C37: every declared output name is mapped to a path directly inside the
\* output directory of the job, and two different names to two different
\* paths.
C37_OutputsInsideOwnDir ==
  Returned =>
    /\ \A k \in 1..Len(fnRet[1]) :
         /\ Len(fnRet[1][k][2]) = Len(tempDirOfCall) + 1
         /\ IsPrefix(tempDirOfCall, fnRet[1][k][2])
    /\ \A k1, k2 \in 1..Len(fnRet[1]) :
         fnRet[1][k1][1] # fnRet[1][k2][1] => fnRet[1][k1][2] # fnRet[1][k2][2]

\* C38: any two uploads use different storage keys, and no upload is refused
\* as a duplicate.
C38_DistinctStorageKeys ==
  Returned =>
    /\ \A i, j \in 1..Len(fnRet[1]) :
         i # j => fnRet[1][i].path # fnRet[1][j].path
    /\ \A i \in 1..Len(fnRet[1]) : fnRet[1][i].error = ""

\* C36: two different locators of one request are written to two different
\* local paths.
C36_DistinctLocalPaths ==
  Returned =>
    (fnArgs[1].url # fnArgs[2].url => fnRet[1][1] # fnRet[1][2])

\* the text in which every locator stands replaced, where it stands, by the
\* local path of its download
RECURSIVE EachReplaced(_, _)
EachReplaced(text, i) ==
  IF i > Len(text) THEN << >>
  ELSE IF MatchesAt(text, i)
    THEN localPathText(SubSeq(text, i, MatchEnd(text, i)))
           \o EachReplaced(text, MatchEnd(text, i) + 1)
    ELSE << text[i] >> \o EachReplaced(text, i + 1)

\* C32: after URL rewriting every extracted locator is replaced at its own
\* position by the local path of its own download, and no http:// or
\* https:// locator is left in the command.
C32_EveryLocatorReplaced ==
  Returned =>
    /\ fnRet[1] = EachReplaced(fnArgs, 1)
    /\ extractUrls(fnRet[1]) = << >>
\* C39: under fair scheduling of timer and subprocess events, every job
\* that holds a slot of the execution queue settles and gives the slot
\* back, and every job waiting in the queue is admitted
C39_EveryJobReleases ==
  \A r \in 1..NJobs :
    /\ (r \in slots) ~> (r \notin slots)
    /\ (r \in SeqToSet(waiting)) ~> (r \in slots)

====
